---- MODULE Spec2Model ----
(***************************************************************************)
(* Model of the sparse-matrix assembly helpers of gohighs (highs/utils.go). *)
(*                                                                         *)
(* The module holds several specifications over disjoint groups of         *)
(* variables; each one leaves the variables of the others at their idle    *)
(* values.                                                                 *)
(*                                                                         *)
(* Spec: the caller of nonzerosToCSR.                                      *)
(* SpecExpand: one call of expandSlice.                                    *)
(* SpecMaxRowCol: one call of maxRowCol.                                   *)
(* SpecRows: a Model filled by its Add...Row methods.                      *)
(* SpecSolve: a Model filled field by field, then one call of Solve.       *)
(* SpecClose: one Solver, created and then closed any number of times.     *)
(* SpecOptions: one call of Solve with a list of options.                  *)
(* SpecNumVars: one call of NumVars.                                       *)
(*                                                                         *)
(* nonzerosToCSR is a pure function.  The state machine below is a caller  *)
(* that holds a triple slice nz and a flag, calls nonzerosToCSR on them    *)
(* (Convert), and may then call it once more, on a permutation of the same *)
(* slice (ConvertPermuted) or with the other flag (ConvertReflagged); the  *)
(* outcome of the first call is kept in prev so that two calls can be      *)
(* compared.                                                               *)
(*                                                                         *)
(* Slices are sequences; Go's 0-based offsets are kept as values (the      *)
(* entries of start), while positions in a TLA+ sequence are 1-based.      *)
(* A nil slice and an empty slice are both << >>.                          *)
(***************************************************************************)
EXTENDS Integers, Sequences, FiniteSets

VARIABLES
    nz,          \* the caller's []Nonzero argument
    triangular,  \* the caller's triangular argument
    pc,          \* "ready": call pending, "done": nonzerosToCSR has returned
    start,       \* returned start
    index,       \* returned index
    value,       \* returned value
    err,         \* returned err
    prev,        \* << >>, or <<r>> with r the arguments and results of the first call
    es,          \* one call of expandSlice: its arguments, then its results
    mrc,         \* one call of maxRowCol: its argument, then its results
    m,           \* a Model value
    rowCall,     \* << >>, or <<c>> with c the last Add...Row call on m and m before it
    solve,       \* one call of Model.Solve on m: its options, then its results
    solver,      \* one Solver: its handle and what happened to the native object
    dims         \* one call of Model.NumVars on m: then its result

vars == <<nz, triangular, pc, start, index, value, err, prev, es, mrc, m, rowCall,
          solve, solver, dims>>

\* the variables of the nonzerosToCSR caller, and all the others
csrVars == <<nz, triangular, pc, start, index, value, err, prev>>

nonCsrVars == <<es, mrc, m, rowCall, solve, solver, dims>>

----------------------------------------------------------------------------
(* Bounds of the explored inputs *)

MaxLen == 2     \* longest triple slice
MaxRow == 2     \* largest row index; the smallest is -1
MaxCol == 1     \* largest column index; the smallest is -1

Rows == (0 - 1)..MaxRow

Cols == (0 - 1)..MaxCol

\* nonzerosToCSR copies Val and never inspects it, so two values are enough
\* to tell any two triples apart.
Vals == {1, 2}

Nonzero == [Row : Rows, Col : Cols, Val : Vals]

Inputs == UNION {[1..n -> Nonzero] : n \in 0..MaxLen}

----------------------------------------------------------------------------
(* Errors *)

ErrNone == "nil"
ErrNegative == "nonzerosToCSR: negative row or column index"
ErrTriangular == "nonzerosToCSR: Hessian must be upper triangular"

----------------------------------------------------------------------------
(* sort.Slice(sorted, less) *)

\* the less function handed to sort.Slice
Less(a, b) ==
    IF a.Row # b.Row THEN a.Row < b.Row ELSE a.Col < b.Col

Perms(n) == {p \in [1..n -> 1..n] : \A i, j \in 1..n : i # j => p[i] # p[j]}

Permute(s, p) == [i \in 1..Len(s) |-> s[p[i]]]

\* A plausible slip: the copy is never sorted.
SortSliceUnsorted(s) == {s}

\* sort.Slice orders by less and, unlike sort.SliceStable, leaves the relative
\* order of elements that compare equal unspecified: every ordered
\* arrangement of the copy is a possible outcome.
SortSlice(s) ==
    {t \in {Permute(s, p) : p \in Perms(Len(s))} :
        \A i \in 1..(Len(t) - 1) : ~Less(t[i + 1], t[i])}

----------------------------------------------------------------------------
(* The validate-and-deduplicate loop *)

\* A plausible slip: only the row is tested for a negative index.
ValidateRowOnly(n, tri) ==
    IF n.Row < 0 THEN ErrNegative
    ELSE IF tri /\ n.Row > n.Col THEN ErrTriangular
    ELSE ErrNone

\* A plausible slip: the triangular flag is not consulted.
ValidateAlwaysTriangular(n, tri) ==
    IF n.Row < 0 \/ n.Col < 0 THEN ErrNegative
    ELSE IF n.Row > n.Col THEN ErrTriangular
    ELSE ErrNone

\* the two checks made on each element of sorted
Validate(n, tri) ==
    IF n.Row < 0 \/ n.Col < 0 THEN ErrNegative
    ELSE IF tri /\ n.Row > n.Col THEN ErrTriangular
    ELSE ErrNone

\* A plausible slip: every element is appended, duplicates included.
MergeAppendAll(filtered, n) == Append(filtered, n)

\* A plausible slip: duplicates are recognised by their column alone.
MergeColOnly(filtered, n) ==
    IF Len(filtered) > 0 /\ filtered[Len(filtered)].Col = n.Col
    THEN [filtered EXCEPT ![Len(filtered)].Val = n.Val]
    ELSE Append(filtered, n)

\* A plausible slip: the values of duplicates are added up.
MergeSum(filtered, n) ==
    IF Len(filtered) > 0
       /\ filtered[Len(filtered)].Row = n.Row
       /\ filtered[Len(filtered)].Col = n.Col
    THEN [filtered EXCEPT ![Len(filtered)].Val = @ + n.Val]
    ELSE Append(filtered, n)

\* "Merge duplicates (keep last value)"
Merge(filtered, n) ==
    IF Len(filtered) > 0
       /\ filtered[Len(filtered)].Row = n.Row
       /\ filtered[Len(filtered)].Col = n.Col
    THEN [filtered EXCEPT ![Len(filtered)].Val = n.Val]
    ELSE Append(filtered, n)

\* for _, n := range sorted { ... }, from element i on; the result is the
\* error that ended the loop (ErrNone when it ran to the end) and filtered as
\* it was at that point.
RECURSIVE Walk(_, _, _, _)
Walk(sorted, i, tri, filtered) ==
    IF i > Len(sorted) THEN [err |-> ErrNone, filtered |-> filtered]
    ELSE IF Validate(sorted[i], tri) # ErrNone
         THEN [err |-> Validate(sorted[i], tri), filtered |-> filtered]
         ELSE Walk(sorted, i + 1, tri, Merge(filtered, sorted[i]))

----------------------------------------------------------------------------
(* The CSR-building loop *)

\* for i, n := range filtered { if n.Row > prevRow { ... } }, from the element
\* at (1-based) position i on; the appended offset is the Go index i - 1.
RECURSIVE BuildStart(_, _, _, _)
BuildStart(filtered, i, prevRow, st) ==
    IF i > Len(filtered) THEN st
    ELSE IF filtered[i].Row > prevRow
         THEN BuildStart(filtered, i + 1, filtered[i].Row, Append(st, i - 1))
         ELSE BuildStart(filtered, i + 1, prevRow, st)

\* A plausible slip: prevRow starts at 0, so row 0 never opens a segment.
CSRStartFromZero(filtered) == BuildStart(filtered, 1, 0, << >>)

\* start = make([]int, 0); prevRow := -1; the loop
CSRStart(filtered) == BuildStart(filtered, 1, 0 - 1, << >>)

\* A plausible slip: index is filled from the row of each entry.
BuildCSRRowAsIndex(filtered) ==
    [start |-> CSRStart(filtered),
     index |-> [i \in 1..Len(filtered) |-> filtered[i].Row],
     value |-> [i \in 1..Len(filtered) |-> filtered[i].Val],
     err   |-> ErrNone]

\* index[i] = n.Col; value[i] = n.Val
BuildCSR(filtered) ==
    [start |-> CSRStart(filtered),
     index |-> [i \in 1..Len(filtered) |-> filtered[i].Col],
     value |-> [i \in 1..Len(filtered) |-> filtered[i].Val],
     err   |-> ErrNone]

----------------------------------------------------------------------------
(* Returns *)

\* A plausible slip: the empty matrix is returned with a leading offset.
EmptyReturnWithOffset == [start |-> <<0>>, index |-> << >>, value |-> << >>, err |-> ErrNone]

\* return nil, nil, nil, nil
EmptyReturn == [start |-> << >>, index |-> << >>, value |-> << >>, err |-> ErrNone]

\* A plausible slip: what was built so far is returned next to the error.
ErrorReturnPartial(w) == [BuildCSR(w.filtered) EXCEPT !.err = w.err]

\* return nil, nil, nil, newErrorMsg(...)
ErrorReturn(w) == [start |-> << >>, index |-> << >>, value |-> << >>, err |-> w.err]

\* the function body after the sort, for one outcome of the sort
ConvertSorted(sorted, tri) ==
    LET w == Walk(sorted, 1, tri, << >>)
    IN  IF w.err # ErrNone THEN ErrorReturn(w) ELSE BuildCSR(w.filtered)

\* nonzerosToCSR(nz, triangular): the set of results the call can return
nonzerosToCSR(s, tri) ==
    IF Len(s) = 0 THEN {EmptyReturn}
    ELSE {ConvertSorted(sorted, tri) : sorted \in SortSlice(s)}

\* A plausible slip: "sorted := nz" shares the caller's backing array, so the
\* sort reorders the caller's triples.
CallerArrayAfterSortShared(s, sorted) == sorted

\* sorted := make([]Nonzero, len(nz)); copy(sorted, nz): sort.Slice reorders a
\* private buffer, and the caller's backing array keeps what it held
CallerArrayAfterSort(s, sorted) == s

\* one call of nonzerosToCSR(nz, triangular) with its effect on the caller's
\* slice: the set of pairs (returned values, caller's slice after the call)
nonzerosToCSRCall(s, tri) ==
    IF Len(s) = 0 THEN {[ret |-> EmptyReturn, nz |-> s]}
    ELSE {[ret |-> ConvertSorted(sorted, tri),
           nz  |-> CallerArrayAfterSort(s, sorted)] : sorted \in SortSlice(s)}

----------------------------------------------------------------------------
(* The caller *)

\* the idle values of each group of variables
IdleCSR ==
    /\ nz = << >>
    /\ triangular = FALSE
    /\ pc = "idle"
    /\ start = << >>
    /\ index = << >>
    /\ value = << >>
    /\ err = "nil"
    /\ prev = << >>

IdleExpand == es = "idle"

IdleMaxRowCol == mrc = "idle"

IdleModel == m = "idle" /\ rowCall = << >>

IdleSolve == solve = "idle"

IdleSolver == solver = "idle"

IdleDims == dims = "idle"

IdleOutsideCSR ==
    IdleExpand /\ IdleMaxRowCol /\ IdleModel /\ IdleSolve /\ IdleSolver /\ IdleDims

Init ==
    /\ nz \in Inputs
    /\ triangular \in BOOLEAN
    /\ pc = "ready"
    /\ start = << >>
    /\ index = << >>
    /\ value = << >>
    /\ err = ErrNone
    /\ prev = << >>
    /\ IdleOutsideCSR

\* start, index, value, err := nonzerosToCSR(nz, triangular)
Convert ==
    /\ pc = "ready"
    /\ \E c \in nonzerosToCSRCall(nz, triangular) :
          /\ start' = c.ret.start
          /\ index' = c.ret.index
          /\ value' = c.ret.value
          /\ err' = c.ret.err
          /\ nz' = c.nz
    /\ pc' = "done"
    /\ UNCHANGED <<triangular, prev>>
    /\ UNCHANGED nonCsrVars

ThisCall ==
    [nz |-> nz, triangular |-> triangular,
     start |-> start, index |-> index, value |-> value, err |-> err]

\* the caller keeps the first results and calls again on a permutation of
\* the same triples: start, index, value, err = nonzerosToCSR(permuted, triangular)
ConvertPermuted ==
    /\ pc = "done"
    /\ prev = << >>
    /\ \E p \in Perms(Len(nz)) :
          \E c \in nonzerosToCSRCall(Permute(nz, p), triangular) :
                /\ start' = c.ret.start
                /\ index' = c.ret.index
                /\ value' = c.ret.value
                /\ err' = c.ret.err
                /\ nz' = c.nz
    /\ prev' = <<ThisCall>>
    /\ UNCHANGED <<triangular, pc>>
    /\ UNCHANGED nonCsrVars

\* the caller keeps the first results and calls again on the same triples
\* with the other flag: start, index, value, err = nonzerosToCSR(nz, !triangular)
ConvertReflagged ==
    /\ pc = "done"
    /\ prev = << >>
    /\ triangular' = ~triangular
    /\ \E c \in nonzerosToCSRCall(nz, ~triangular) :
          /\ start' = c.ret.start
          /\ index' = c.ret.index
          /\ value' = c.ret.value
          /\ err' = c.ret.err
          /\ nz' = c.nz
    /\ prev' = <<ThisCall>>
    /\ UNCHANGED pc
    /\ UNCHANGED nonCsrVars

Next == Convert \/ ConvertPermuted \/ ConvertReflagged

Spec == Init /\ [][Next]_vars

TypeOK ==
    /\ nz \in Inputs
    /\ triangular \in BOOLEAN
    /\ pc \in {"ready", "done"}
    /\ err \in {ErrNone, ErrNegative, ErrTriangular}
    /\ Len(prev) <= 1
----------------------------------------------------------------------------
(* Vocabulary of the properties, defined on the caller's input alone *)

Key(n) == <<n.Row, n.Col>>

Keys(s) == {Key(s[i]) : i \in DOMAIN s}

RowsOf(s) == {s[i].Row : i \in DOMAIN s}

MaxRowOf(s) == CHOOSE r \in RowsOf(s) : \A q \in RowsOf(s) : q <= r

KeyLess(j, k) == j[1] < k[1] \/ (j[1] = k[1] /\ j[2] < k[2])

IsNegative(n) == n.Row < 0 \/ n.Col < 0

HasNegative(s) == \E i \in DOMAIN s : IsNegative(s[i])

IsLower(n) == n.Row > n.Col

HasLower(s) == \E i \in DOMAIN s : IsLower(s[i])

\* "valid": no negative index, and upper triangular when the flag is set
IsValid(s, tri) == ~HasNegative(s) /\ (tri => ~HasLower(s))

\* 1-based position of key k among the distinct keys of s in (row, col) order
PosOf(s, k) == 1 + Cardinality({j \in Keys(s) : KeyLess(j, k)})

\* number of distinct keys of s in rows smaller than r
OffsetOfRow(s, r) == Cardinality({j \in Keys(s) : j[1] < r})

\* value of the triple that comes last in s among those with key k
LastVal(s, k) ==
    LET last == CHOOSE i \in DOMAIN s :
                   /\ Key(s[i]) = k
                   /\ \A j \in DOMAIN s : Key(s[j]) = k => j <= i
    IN  s[last].Val

HasDuplicateKey(s) == \E i, j \in DOMAIN s : i < j /\ Key(s[i]) = Key(s[j])

\* triples that share a key carry the same value
SameKeySameVal(s) ==
    \A i, j \in DOMAIN s : Key(s[i]) = Key(s[j]) => s[i].Val = s[j].Val

Returned == pc = "done"

Succeeded == pc = "done" /\ err = ErrNone

----------------------------------------------------------------------------
(* C1: after a successful call on a non-empty slice, start has maximum row  *)
(* index + 1 entries and entry r is the offset at which row r's entries     *)
(* begin.                                                                   *)
C1_RowStartPerRow ==
    (Succeeded /\ Len(nz) > 0) =>
        /\ Len(start) = MaxRowOf(nz) + 1
        /\ \A r \in 0..MaxRowOf(nz) : start[r + 1] = OffsetOfRow(nz, r)

(* C2: after a successful call, the value emitted for each (row, col) key   *)
(* is the value of the last input triple that carries the key.              *)
C2_LastWriteWins ==
    Succeeded =>
        /\ Len(value) = Cardinality(Keys(nz))
        /\ \A k \in Keys(nz) : value[PosOf(nz, k)] = LastVal(nz, k)

(* C3, as stated: two calls with the same flag on a valid slice and on a    *)
(* permutation of it return identical start, index and value.               *)
C3_PermutationInvariant ==
    (Returned /\ prev # << >> /\ prev[1].triangular = triangular
        /\ IsValid(nz, triangular)) =>
        /\ start = prev[1].start
        /\ index = prev[1].index
        /\ value = prev[1].value

(* C3, amended: two calls with the same flag on a valid slice in which      *)
(* triples sharing a (row, col) key carry the same value, and on a          *)
(* permutation of it, return identical start, index and value.              *)
C3_PermutationInvariantNoConflict ==
    (Returned /\ prev # << >> /\ prev[1].triangular = triangular
        /\ IsValid(nz, triangular) /\ SameKeySameVal(nz)) =>
        /\ err = ErrNone
        /\ prev[1].err = ErrNone
        /\ start = prev[1].start
        /\ index = prev[1].index
        /\ value = prev[1].value

\* a second call has returned on a reordered valid slice of at least two keys
C3_Witness ==
    /\ Succeeded
    /\ prev # << >>
    /\ prev[1].triangular = triangular
    /\ prev[1].nz # nz
    /\ SameKeySameVal(nz)
    /\ Cardinality(Keys(nz)) >= 2
    /\ Len(index) >= 2
\* some triple with non-negative indices and row > col precedes, in
\* (row, col) order, every triple with a negative index
LowerBeforeNegative(s) ==
    \E i \in DOMAIN s :
        /\ ~IsNegative(s[i])
        /\ IsLower(s[i])
        /\ \A j \in DOMAIN s : IsNegative(s[j]) => Less(s[i], s[j])

(* C4, as stated: for either flag, a call on a slice that holds a triple    *)
(* with row < 0 or col < 0 returns the negative-index error.                *)
C4_NegativeIndexError ==
    (Returned /\ HasNegative(nz)) => err = ErrNegative

(* C4, amended: a call on a slice that holds a triple with row < 0 or       *)
(* col < 0 always fails; the error is the negative-index error, except that *)
(* with the flag set it is the not-upper-triangular error when a triple     *)
(* with non-negative indices and row > col precedes every negative-index    *)
(* triple in (row, col) order.                                              *)
C4_NegativeIndexFails ==
    (Returned /\ HasNegative(nz)) =>
        /\ err # ErrNone
        /\ err = IF triangular /\ LowerBeforeNegative(nz)
                 THEN ErrTriangular
                 ELSE ErrNegative

\* a call has returned on a slice whose only negative index is a column
C4_Witness ==
    /\ Returned
    /\ err = ErrNegative
    /\ \E i \in DOMAIN nz : nz[i].Col < 0
    /\ \A i \in DOMAIN nz : nz[i].Row >= 0

(* C5: on a slice with no negative index and some triple with row > col, a  *)
(* call with the flag set returns the not-upper-triangular error and a call *)
(* with the flag unset succeeds.                                            *)
C5_TriangularOnlyWhenFlagged ==
    (Returned /\ ~HasNegative(nz) /\ HasLower(nz)) =>
        err = IF triangular THEN ErrTriangular ELSE ErrNone

\* the same slice failed with the flag set and then succeeded with it unset
C5_Witness ==
    /\ Succeeded
    /\ ~triangular
    /\ HasLower(nz)
    /\ ~HasNegative(nz)
    /\ prev # << >>
    /\ prev[1].nz = nz
    /\ prev[1].triangular
    /\ prev[1].err = ErrTriangular

(* C6: a call on the empty slice returns three empty sequences and no       *)
(* error, whatever the flag.                                                *)
C6_EmptyInput ==
    (Returned /\ Len(nz) = 0) =>
        /\ start = << >>
        /\ index = << >>
        /\ value = << >>
        /\ err = ErrNone

\* the empty slice has been converted under both flags
C6_Witness ==
    /\ Returned
    /\ Len(nz) = 0
    /\ prev # << >>
    /\ prev[1].triangular # triangular

(* C7: a call that returns an error returns three empty sequences; a call   *)
(* that returns no error returns index and value with one entry per         *)
(* distinct key of the input and start with one entry per distinct row.     *)
C7_NoPartialOutput ==
    Returned =>
        /\ err # ErrNone =>
              (start = << >> /\ index = << >> /\ value = << >>)
        /\ err = ErrNone =>
              /\ Len(index) = Cardinality(Keys(nz))
              /\ Len(value) = Cardinality(Keys(nz))
              /\ Len(start) = Cardinality(RowsOf(nz))

\* a call failed after at least one triple had passed validation
C7_Witness ==
    /\ Returned
    /\ err # ErrNone
    /\ \E i \in DOMAIN nz :
          /\ Validate(nz[i], triangular) = ErrNone
          /\ \A j \in DOMAIN nz :
                Validate(nz[j], triangular) # ErrNone => Less(nz[i], nz[j])

\* last (1-based) position of the segment that start[k] opens
SegmentEnd(k) == IF k < Len(start) THEN start[k + 1] ELSE Len(index)

(* C8: after a successful call, the column indices inside each segment      *)
(* delimited by consecutive start entries are strictly increasing.          *)
C8_ColumnsStrictlyIncreasing ==
    Succeeded =>
        \A k \in 1..Len(start) :
            \A i \in (start[k] + 1)..(SegmentEnd(k) - 1) : index[i] < index[i + 1]

\* a successful call on a slice with a repeated key
C8_Witness ==
    /\ Succeeded
    /\ HasDuplicateKey(nz)
    /\ Len(index) >= 1

(* C9: after a successful call on a non-empty slice, start begins with 0,   *)
(* is non-decreasing, and each entry is an offset below len(index).         *)
C9_RowStartOffsets ==
    (Succeeded /\ Len(nz) > 0) =>
        /\ Len(start) >= 1
        /\ start[1] = 0
        /\ \A k \in 1..(Len(start) - 1) : start[k] <= start[k + 1]
        /\ \A k \in 1..Len(start) : start[k] >= 0 /\ start[k] < Len(index)

\* a successful call on a slice with two rows
C9_Witness ==
    /\ Succeeded
    /\ Cardinality(RowsOf(nz)) >= 2
    /\ Len(start) >= 2

(* C10: after a successful call, index and value have the same length, the  *)
(* number of distinct (row, col) keys of the input.                         *)
C10_OneEntryPerKey ==
    Succeeded =>
        /\ Len(index) = Len(value)
        /\ Len(index) = Cardinality(Keys(nz))

\* a successful call on a slice with two keys in different rows of one column
C10_Witness ==
    /\ Succeeded
    /\ Cardinality(Keys(nz)) = 2
    /\ \E i, j \in DOMAIN nz : nz[i].Col = nz[j].Col /\ nz[i].Row # nz[j].Row
(* C11: a call of nonzerosToCSR, successful or failing, leaves the caller's *)
(* triple slice as it was: the same triples in the same order.              *)
C11_InputUnchanged ==
    [][(pc = "ready" /\ pc' = "done") => nz' = nz]_vars

\* a call has returned on a slice that was not in (row, col) order
C11_Witness ==
    /\ Returned
    /\ prev = << >>
    /\ \E i \in 1..(Len(nz) - 1) : Less(nz[i + 1], nz[i])
----------------------------------------------------------------------------
(* expandSlice *)

MaxN == 2       \* largest requested length n, and longest slice handed in

\* math.Inf(1), written as a number above every finite value of the model
Inf == 3

\* math.Inf(-1)
NegInf == 0 - Inf

\* the finite float64 values of the model
Floats == {0} \cup Vals

\* the fill values Model.Solve passes: 0.0, math.Inf(-1), math.Inf(1)
FillValues == {0, NegInf, Inf}

FloatSlices == UNION {[1..k -> Floats] : k \in 0..MaxN}

ErrInconsistent == "expandSlice: inconsistent slice length"

\* A plausible slip: a slice that is too short is padded with the fill value.
expandSlicePadding(n, slice, fillValue) ==
    IF Len(slice) = n THEN [out |-> slice, err |-> ErrNone]
    ELSE IF Len(slice) < n
         THEN [out |-> [i \in 1..n |-> IF i <= Len(slice) THEN slice[i] ELSE fillValue],
               err |-> ErrNone]
         ELSE [out |-> << >>, err |-> ErrInconsistent]

\* expandSlice(n, slice, fillValue)
expandSlice(n, slice, fillValue) ==
    IF Len(slice) = n THEN [out |-> slice, err |-> ErrNone]
    ELSE IF Len(slice) = 0
         THEN [out |-> [i \in 1..n |-> fillValue], err |-> ErrNone]
         ELSE [out |-> << >>, err |-> ErrInconsistent]

InitExpand ==
    /\ es \in [n : 0..MaxN, slice : FloatSlices, fill : FillValues,
               pc : {"ready"}, out : {<< >>}, err : {ErrNone}]
    /\ IdleCSR
    /\ IdleDims
    /\ IdleMaxRowCol
    /\ IdleModel
    /\ IdleSolve
    /\ IdleSolver

\* out, err := expandSlice(n, slice, fill)
ExpandSlice ==
    /\ es.pc = "ready"
    /\ es' = [es EXCEPT !.pc = "done",
                        !.out = expandSlice(es.n, es.slice, es.fill).out,
                        !.err = expandSlice(es.n, es.slice, es.fill).err]
    /\ UNCHANGED <<csrVars, mrc, m, rowCall, solve, solver, dims>>

NextExpand == ExpandSlice

SpecExpand == InitExpand /\ [][NextExpand]_vars

(* C12: expandSlice(n, s, fill) returns s itself and no error when          *)
(* len(s) = n; otherwise, when s is empty, n copies of fill and no error;   *)
(* otherwise the inconsistent-length error and no sequence.                 *)
C12_ExpandSlice ==
    es.pc = "done" =>
        IF Len(es.slice) = es.n
        THEN es.out = es.slice /\ es.err = ErrNone
        ELSE IF Len(es.slice) = 0
             THEN /\ Len(es.out) = es.n
                  /\ \A i \in 1..es.n : es.out[i] = es.fill
                  /\ es.err = ErrNone
             ELSE es.out = << >> /\ es.err = ErrInconsistent

\* a call has returned on a non-empty slice shorter than n
C12_Witness ==
    /\ es.pc = "done"
    /\ Len(es.slice) > 0
    /\ Len(es.slice) < es.n
    /\ es.err = ErrInconsistent
----------------------------------------------------------------------------
(* maxRowCol *)

\* maxRowCol validates nothing, so its argument may hold any index; the
\* explored indices start at -2
AnyRows == (0 - 2)..MaxRow

AnyCols == (0 - 2)..MaxCol

AnyNonzero == [Row : AnyRows, Col : AnyCols, Val : {1}]

AnyInputs == UNION {[1..k -> AnyNonzero] : k \in 0..MaxLen}

\* for _, n := range nz { ... }, from element i on
RECURSIVE ScanMax(_, _, _, _)
ScanMax(s, i, maxRow, maxCol) ==
    IF i > Len(s) THEN [maxRow |-> maxRow, maxCol |-> maxCol]
    ELSE ScanMax(s, i + 1,
                 IF s[i].Row > maxRow THEN s[i].Row ELSE maxRow,
                 IF s[i].Col > maxCol THEN s[i].Col ELSE maxCol)

\* A plausible slip: the running maxima start at 0.
maxRowColFromZero(s) == ScanMax(s, 1, 0, 0)

\* maxRowCol(nz): maxRow, maxCol = -1, -1; the loop
maxRowCol(s) == ScanMax(s, 1, 0 - 1, 0 - 1)

InitMaxRowCol ==
    /\ mrc \in [nz : AnyInputs, pc : {"ready"}, maxRow : {0}, maxCol : {0}]
    /\ IdleCSR
    /\ IdleDims
    /\ IdleExpand
    /\ IdleModel
    /\ IdleSolve
    /\ IdleSolver

\* maxRow, maxCol := maxRowCol(nz)
MaxRowCol ==
    /\ mrc.pc = "ready"
    /\ mrc' = [mrc EXCEPT !.pc = "done",
                          !.maxRow = maxRowCol(mrc.nz).maxRow,
                          !.maxCol = maxRowCol(mrc.nz).maxCol]
    /\ UNCHANGED <<csrVars, es, m, rowCall, solve, solver, dims>>

NextMaxRowCol == MaxRowCol

SpecMaxRowCol == InitMaxRowCol /\ [][NextMaxRowCol]_vars

ColsOf(s) == {s[i].Col : i \in DOMAIN s}

MaxOf(S) == CHOOSE x \in S : \A y \in S : y <= x

----------------------------------------------------------------------------
(* Model and its Add...Row methods (highs/model.go) *)

MaxAdds == 2      \* most Add...Row calls on one Model
MaxCoeffs == 2    \* longest dense coefficient vector
MaxSparse == 1    \* longest cols / vals pair of AddSparseRow

\* the zero value Model{}
ZeroModel ==
    [Maximize |-> FALSE, Offset |-> 0,
     ColCosts |-> << >>, ColLower |-> << >>, ColUpper |-> << >>,
     RowLower |-> << >>, RowUpper |-> << >>,
     ConstMatrix |-> << >>, Hessian |-> << >>, VarTypes |-> << >>]

\* the column side of the model of TestAddDenseRow, set before any row is added
ColumnsSetModel ==
    [ZeroModel EXCEPT !.Offset = 2, !.ColCosts = <<1, 1>>,
                      !.ColLower = <<0, 1>>, !.ColUpper = <<2, Inf>>]

\* the coefficient values of the explored calls: zero and one non-zero value
CoeffVals == {0, 2}

DenseCoeffs == UNION {[1..k -> CoeffVals] : k \in 0..MaxCoeffs}

\* for col, val := range coeffs { if val != 0.0 { append } }, from the
\* (1-based) position i on; the column is the Go index i - 1
RECURSIVE DenseEntries(_, _, _)
DenseEntries(row, coeffs, i) ==
    IF i > Len(coeffs) THEN << >>
    ELSE IF coeffs[i] # 0
         THEN <<[Row |-> row, Col |-> i - 1, Val |-> coeffs[i]]>>
                  \o DenseEntries(row, coeffs, i + 1)
         ELSE DenseEntries(row, coeffs, i + 1)

\* A plausible slip: the row number is taken after RowLower has grown.
AddDenseRowRowAfterAppend(mm, lower, coeffs, upper) ==
    [mm EXCEPT !.RowLower = Append(mm.RowLower, lower),
               !.RowUpper = Append(mm.RowUpper, upper),
               !.ConstMatrix = mm.ConstMatrix
                                \o DenseEntries(Len(mm.RowLower) + 1, coeffs, 1)]

\* m.AddDenseRow(lower, coeffs, upper)
AddDenseRow(mm, lower, coeffs, upper) ==
    [mm EXCEPT !.RowLower = Append(mm.RowLower, lower),
               !.RowUpper = Append(mm.RowUpper, upper),
               !.ConstMatrix = mm.ConstMatrix
                                \o DenseEntries(Len(mm.RowLower), coeffs, 1)]

\* for i, col := range cols { if vals[i] != 0.0 { append } }, from position i on
RECURSIVE SparseEntries(_, _, _, _)
SparseEntries(row, cols, vals, i) ==
    IF i > Len(cols) THEN << >>
    ELSE IF vals[i] # 0
         THEN <<[Row |-> row, Col |-> cols[i], Val |-> vals[i]]>>
                  \o SparseEntries(row, cols, vals, i + 1)
         ELSE SparseEntries(row, cols, vals, i + 1)

\* A plausible slip: the row index is taken from the length of ConstMatrix.
AddSparseRowRowFromMatrix(mm, lower, cols, vals, upper) ==
    [mm EXCEPT !.RowLower = Append(mm.RowLower, lower),
               !.RowUpper = Append(mm.RowUpper, upper),
               !.ConstMatrix = mm.ConstMatrix
                                \o SparseEntries(Len(mm.ConstMatrix), cols, vals, 1)]

\* m.AddSparseRow(lower, cols, vals, upper)
AddSparseRow(mm, lower, cols, vals, upper) ==
    [mm EXCEPT !.RowLower = Append(mm.RowLower, lower),
               !.RowUpper = Append(mm.RowUpper, upper),
               !.ConstMatrix = mm.ConstMatrix
                                \o SparseEntries(Len(mm.RowLower), cols, vals, 1)]

\* m.AddEqRow(coeffs, rhs)
AddEqRow(mm, coeffs, rhs) == AddDenseRow(mm, rhs, coeffs, rhs)

\* m.AddLeRow(coeffs, rhs)
AddLeRow(mm, coeffs, rhs) == AddDenseRow(mm, NegInf, coeffs, rhs)

\* m.AddGeRow(coeffs, rhs)
AddGeRow(mm, coeffs, rhs) == AddDenseRow(mm, rhs, coeffs, Inf)

InitRows ==
    /\ m \in {ZeroModel, ColumnsSetModel}
    /\ rowCall = << >>
    /\ IdleCSR
    /\ IdleDims
    /\ IdleExpand
    /\ IdleMaxRowCol
    /\ IdleSolve
    /\ IdleSolver

\* the record of one Add...Row call: its arguments and the model before it,
\* and, of the whole sequence of calls so far: the model it started from
\* (first), the number of calls (k) and, for each ConstMatrix entry, the
\* 0-based index of the call that appended it (addedBy)
RowCallRecord(op, lower, coeffs, cols, upper) ==
    LET calls  == IF rowCall = << >> THEN 0 ELSE rowCall[1].k
        owners == IF rowCall = << >> THEN << >> ELSE rowCall[1].addedBy
        added  == Len(m'.ConstMatrix) - Len(m.ConstMatrix)
    IN  [op |-> op, lower |-> lower, coeffs |-> coeffs, cols |-> cols,
         upper |-> upper, before |-> m,
         first |-> IF rowCall = << >> THEN m ELSE rowCall[1].first,
         k |-> calls + 1,
         addedBy |-> owners \o [i \in 1..added |-> calls]]

CanAddRow == Len(m.RowLower) < MaxAdds

\* m.AddDenseRow(0, coeffs, 1)
AddDenseRowCall ==
    /\ CanAddRow
    /\ \E coeffs \in DenseCoeffs :
          /\ m' = AddDenseRow(m, 0, coeffs, 1)
          /\ rowCall' = <<RowCallRecord("AddDenseRow", 0, coeffs, << >>, 1)>>
    /\ UNCHANGED <<csrVars, es, mrc, solve, solver, dims>>

\* m.AddSparseRow(0, cols, vals, 1)
AddSparseRowCall ==
    /\ CanAddRow
    /\ \E k \in 0..MaxSparse :
          \E cols \in [1..k -> 0..(MaxCoeffs - 1)], vals \in [1..k -> CoeffVals] :
              /\ m' = AddSparseRow(m, 0, cols, vals, 1)
              /\ rowCall' = <<RowCallRecord("AddSparseRow", 0, vals, cols, 1)>>
    /\ UNCHANGED <<csrVars, es, mrc, solve, solver, dims>>

\* m.AddEqRow(coeffs, 1)
AddEqRowCall ==
    /\ CanAddRow
    /\ \E coeffs \in DenseCoeffs :
          /\ m' = AddEqRow(m, coeffs, 1)
          /\ rowCall' = <<RowCallRecord("AddEqRow", 1, coeffs, << >>, 1)>>
    /\ UNCHANGED <<csrVars, es, mrc, solve, solver, dims>>

\* m.AddLeRow(coeffs, 1)
AddLeRowCall ==
    /\ CanAddRow
    /\ \E coeffs \in DenseCoeffs :
          /\ m' = AddLeRow(m, coeffs, 1)
          /\ rowCall' = <<RowCallRecord("AddLeRow", NegInf, coeffs, << >>, 1)>>
    /\ UNCHANGED <<csrVars, es, mrc, solve, solver, dims>>

\* m.AddGeRow(coeffs, 1)
AddGeRowCall ==
    /\ CanAddRow
    /\ \E coeffs \in DenseCoeffs :
          /\ m' = AddGeRow(m, coeffs, 1)
          /\ rowCall' = <<RowCallRecord("AddGeRow", 1, coeffs, << >>, Inf)>>
    /\ UNCHANGED <<csrVars, es, mrc, solve, solver, dims>>

NextRows ==
    \/ AddDenseRowCall
    \/ AddSparseRowCall
    \/ AddEqRowCall
    \/ AddLeRowCall
    \/ AddGeRowCall

SpecRows == InitRows /\ [][NextRows]_vars

\* the positions of the non-zero coefficients, in increasing order
NonzeroPositions(coeffs) == {i \in DOMAIN coeffs : coeffs[i] # 0}

\* the k-th smallest element of a set of positions
RECURSIVE KthOf(_, _)
KthOf(S, k) ==
    LET least == CHOOSE x \in S : \A y \in S : x <= y
    IN  IF k = 1 THEN least ELSE KthOf(S \ {least}, k - 1)

(* C17: AddDenseRow(lower, coeffs, upper) appends lower to RowLower and     *)
(* upper to RowUpper, appends to ConstMatrix one entry {previous            *)
(* len(RowLower), i, coeffs[i]} for each i with coeffs[i] # 0, in           *)
(* increasing i, and leaves the earlier entries and every other field       *)
(* unchanged.                                                               *)
C17_AddDenseRow ==
    (rowCall # << >> /\ rowCall[1].op = "AddDenseRow") =>
        LET c == rowCall[1]
            b == c.before
            P == NonzeroPositions(c.coeffs)
            n == Len(b.ConstMatrix)
        IN  /\ m.RowLower = Append(b.RowLower, c.lower)
            /\ m.RowUpper = Append(b.RowUpper, c.upper)
            /\ Len(m.ConstMatrix) = n + Cardinality(P)
            /\ \A i \in 1..n : m.ConstMatrix[i] = b.ConstMatrix[i]
            /\ \A k \in 1..Cardinality(P) :
                  m.ConstMatrix[n + k] =
                      [Row |-> Len(b.RowLower), Col |-> KthOf(P, k) - 1,
                       Val |-> c.coeffs[KthOf(P, k)]]
            /\ m.Maximize = b.Maximize
            /\ m.Offset = b.Offset
            /\ m.ColCosts = b.ColCosts
            /\ m.ColLower = b.ColLower
            /\ m.ColUpper = b.ColUpper
            /\ m.Hessian = b.Hessian
            /\ m.VarTypes = b.VarTypes

\* a second row was added by AddDenseRow with a zero before a non-zero
\* coefficient, to a model that already had matrix entries and column data
C17_Witness ==
    /\ rowCall # << >>
    /\ rowCall[1].op = "AddDenseRow"
    /\ rowCall[1].coeffs = <<0, 2>>
    /\ Len(rowCall[1].before.ConstMatrix) > 0
    /\ Len(rowCall[1].before.RowLower) = 1
    /\ m.ColCosts # << >>

-----------------------------------------------------------------------------
(* Status codes and errors (highs/cgo.go) *)

StatusError == 0 - 1

StatusOK == 0

StatusWarning == 1

\* the status codes a native call returns
Statuses == {StatusError, StatusOK, StatusWarning}

\* Error.Error() of &Error{Op: op, Status: StatusError}, for the operations
\* Solve performs
FailedWithStatus(op) ==
    CASE op = "SetBoolOption"   -> "highs: SetBoolOption failed with status Error"
      [] op = "SetIntOption"    -> "highs: SetIntOption failed with status Error"
      [] op = "SetFloatOption"  -> "highs: SetFloatOption failed with status Error"
      [] op = "SetStringOption" -> "highs: SetStringOption failed with status Error"
      [] op = "PassModel"       -> "highs: PassModel failed with status Error"
      [] op = "PassHessian"     -> "highs: PassHessian failed with status Error"
      [] op = "Run"             -> "highs: Run failed with status Error"

\* newError(op, status): nil if the status is OK or Warning
newError(op, status) ==
    IF status = StatusOK \/ status = StatusWarning THEN ErrNone
    ELSE FailedWithStatus(op)

\* newErrorMsg("NewSolver", "failed to create HiGHS instance")
ErrNewSolver == "highs: NewSolver failed: failed to create HiGHS instance"

\* newErrorMsg("Solve", "inconsistent ... length"), one per expanded field
ErrInconsistentLength(field) ==
    CASE field = "ColCosts" -> "highs: Solve failed: inconsistent ColCosts length"
      [] field = "ColLower" -> "highs: Solve failed: inconsistent ColLower length"
      [] field = "ColUpper" -> "highs: Solve failed: inconsistent ColUpper length"
      [] field = "RowLower" -> "highs: Solve failed: inconsistent RowLower length"
      [] field = "RowUpper" -> "highs: Solve failed: inconsistent RowUpper length"

\* one call into the native library: the operation, the status it returned
\* and the arguments that matter
NativeCall(op, status, args) == [op |-> op, status |-> status, args |-> args]

-----------------------------------------------------------------------------
(* SolveOption and solveConfig (highs/model.go) *)

\* the pointer fields of solveConfig, in the order apply reads them, with the
\* setter and the option name apply uses for each
NamedOptions ==
    <<[field |-> "output",    op |-> "SetBoolOption",   name |-> "output_flag"],
      [field |-> "timeLimit", op |-> "SetFloatOption",  name |-> "time_limit"],
      [field |-> "mipAbsGap", op |-> "SetFloatOption",  name |-> "mip_abs_gap"],
      [field |-> "mipRelGap", op |-> "SetFloatOption",  name |-> "mip_rel_gap"],
      [field |-> "threads",   op |-> "SetIntOption",    name |-> "threads"],
      [field |-> "presolve",  op |-> "SetStringOption", name |-> "presolve"]>>

\* the map fields of solveConfig, in the order apply ranges over them
ExtraOptions ==
    <<[field |-> "extraBool",   op |-> "SetBoolOption"],
      [field |-> "extraInt",    op |-> "SetIntOption"],
      [field |-> "extraFloat",  op |-> "SetFloatOption"],
      [field |-> "extraString", op |-> "SetStringOption"]>>

\* a nil pointer is << >>, a set one is <<v>>; a map is a function
defaultSolveConfig ==
    [output |-> << >>, timeLimit |-> << >>, mipAbsGap |-> << >>,
     mipRelGap |-> << >>, threads |-> << >>, presolve |-> << >>,
     extraBool |-> << >>, extraInt |-> << >>, extraFloat |-> << >>,
     extraString |-> << >>]

\* a SolveOption is the closure's effect: the field it writes, the key (for
\* the map fields) and the value
WithOutput(enabled) == [field |-> "output", name |-> "", val |-> enabled]

WithTimeLimit(seconds) == [field |-> "timeLimit", name |-> "", val |-> seconds]

WithMIPAbsGap(gap) == [field |-> "mipAbsGap", name |-> "", val |-> gap]

WithMIPRelGap(gap) == [field |-> "mipRelGap", name |-> "", val |-> gap]

WithThreads(n) == [field |-> "threads", name |-> "", val |-> n]

WithPresolve(mode) == [field |-> "presolve", name |-> "", val |-> mode]

WithBoolOption(name, val) == [field |-> "extraBool", name |-> name, val |-> val]

WithIntOption(name, val) == [field |-> "extraInt", name |-> name, val |-> val]

WithFloatOption(name, val) == [field |-> "extraFloat", name |-> name, val |-> val]

WithStringOption(name, val) == [field |-> "extraString", name |-> name, val |-> val]

\* a map is kept as a sequence of [name, val] pairs with distinct names;
\* map[name] = val replaces the pair of that name or adds one
MapSet(mp, name, val) ==
    IF \E i \in 1..Len(mp) : mp[i].name = name
    THEN [i \in 1..Len(mp) |->
             IF mp[i].name = name THEN [name |-> name, val |-> val] ELSE mp[i]]
    ELSE Append(mp, [name |-> name, val |-> val])

\* opt(cfg)
ApplyOption(cfg, o) ==
    IF \E i \in 1..Len(NamedOptions) : NamedOptions[i].field = o.field
    THEN [cfg EXCEPT ![o.field] = <<o.val>>]
    ELSE [cfg EXCEPT ![o.field] = MapSet(@, o.name, o.val)]

\* for _, opt := range opts { opt(cfg) }
RECURSIVE ApplyOptions(_, _, _)
ApplyOptions(cfg, opts, i) ==
    IF i > Len(opts) THEN cfg
    ELSE ApplyOptions(ApplyOption(cfg, opts[i]), opts, i + 1)

\* the setter calls of apply for the pointer fields, from field i on
RECURSIVE NamedCalls(_, _)
NamedCalls(cfg, i) ==
    IF i > Len(NamedOptions) THEN << >>
    ELSE LET o == NamedOptions[i]
         IN  (IF Len(cfg[o.field]) = 0 THEN << >>
              ELSE <<[op |-> o.op, name |-> o.name, val |-> cfg[o.field][1]]>>)
             \o NamedCalls(cfg, i + 1)

\* the setter calls of apply for the map fields, from map j on: a range over
\* a Go map visits its keys in an unspecified order
RECURSIVE ExtraCalls(_, _)
ExtraCalls(cfg, j) ==
    IF j > Len(ExtraOptions) THEN {<< >>}
    ELSE LET o  == ExtraOptions[j]
             mp == cfg[o.field]
             calls == [i \in 1..Len(mp) |->
                          [op |-> o.op, name |-> mp[i].name, val |-> mp[i].val]]
         IN  {Permute(calls, q) \o rest :
                 q \in Perms(Len(mp)), rest \in ExtraCalls(cfg, j + 1)}

\* the setter calls apply makes when none of them fails
CfgCalls(cfg) == {NamedCalls(cfg, 1) \o extra : extra \in ExtraCalls(cfg, 1)}

\* the calls of apply from call i on, with the status of each: the first
\* status that newError turns into an error ends apply
RECURSIVE ApplyCalls(_, _)
ApplyCalls(calls, i) ==
    IF i > Len(calls) THEN {[trace |-> << >>, err |-> ErrNone]}
    ELSE LET c == calls[i]
             args == [name |-> c.name, val |-> c.val]
         IN  {[trace |-> <<NativeCall(c.op, st, args)>> \o
                            (IF newError(c.op, st) # ErrNone THEN << >> ELSE r.trace),
               err   |-> IF newError(c.op, st) # ErrNone THEN newError(c.op, st)
                         ELSE r.err] :
                 st \in Statuses, r \in ApplyCalls(calls, i + 1)}

\* cfg.apply(solver): the native calls made and the error returned
apply(cfg) == UNION {ApplyCalls(calls, 1) : calls \in CfgCalls(cfg)}

-----------------------------------------------------------------------------
(* Model.NumVars, Model.NumConstraints and Model.Solve (highs/model.go) *)

\* maxCol := -1; for ... { if nz.Col > maxCol { maxCol = nz.Col } }
MaxIndex(S) == CHOOSE x \in S \cup {0 - 1} : \A y \in S \cup {0 - 1} : y <= x

\* m.NumVars(): the first of the four lengths that exceeds maxCol+1, else maxCol+1
NumVars(mm) ==
    LET maxCol == MaxIndex({mm.ConstMatrix[i].Col : i \in 1..Len(mm.ConstMatrix)}
                           \cup {mm.Hessian[i].Col : i \in 1..Len(mm.Hessian)})
    IN  IF Len(mm.ColCosts) > maxCol + 1 THEN Len(mm.ColCosts)
        ELSE IF Len(mm.ColLower) > maxCol + 1 THEN Len(mm.ColLower)
        ELSE IF Len(mm.ColUpper) > maxCol + 1 THEN Len(mm.ColUpper)
        ELSE IF Len(mm.VarTypes) > maxCol + 1 THEN Len(mm.VarTypes)
        ELSE maxCol + 1

\* m.NumConstraints()
NumConstraints(mm) ==
    LET maxRow == MaxIndex({mm.ConstMatrix[i].Row : i \in 1..Len(mm.ConstMatrix)})
    IN  IF Len(mm.RowLower) > maxRow + 1 THEN Len(mm.RowLower)
        ELSE IF Len(mm.RowUpper) > maxRow + 1 THEN Len(mm.RowUpper)
        ELSE maxRow + 1

\* the variable types: Continuous is the zero value of VariableType
Continuous == "Continuous"

Integer == "Integer"

\* A plausible slip: the variable types are submitted as given.
PadVarTypesUnchanged(varTypes, numCol) == varTypes

\* expanded := make([]VariableType, numCol); copy(expanded, varTypes)
PadVarTypes(varTypes, numCol) ==
    IF Len(varTypes) > 0 /\ Len(varTypes) # numCol
    THEN [i \in 1..numCol |-> IF i <= Len(varTypes) THEN varTypes[i] ELSE Continuous]
    ELSE varTypes

\* the model statuses the explored runs end with
ModelStatusOptimal == "Optimal"

ModelStatusInfeasible == "Infeasible"

ModelStatuses == {ModelStatusOptimal, ModelStatusInfeasible}

\* the arguments of a native call that takes none besides the handle
NoArgs == [none |-> TRUE]

\* the pointers Highs_create can return; the nil pointer is "nil"
Handles == {"h1", "h2"}

NilPtr == "nil"

\* A plausible slip: the pointer is kept after the native object is destroyed.
CloseKeepsPtr(s) ==
    IF s.ptr # NilPtr
    THEN [s EXCEPT !.destroyed = Append(@, s.ptr)]
    ELSE s

\* s.Close(): if s.ptr != nil { C.Highs_destroy(s.ptr); s.ptr = nil }
\* destroyed is the list of pointers handed to Highs_destroy so far
Close(s) ==
    IF s.ptr # NilPtr
    THEN [s EXCEPT !.destroyed = Append(@, s.ptr), !.ptr = NilPtr]
    ELSE s

\* what Solve returns, the native calls made on its solver, in order, and
\* the Model as Solve leaves it
Outcome(sol, e, trace, mm) == [sol |-> sol, err |-> e, trace |-> trace, model |-> mm]

\* A plausible slip: Close is not deferred, and the finalizer never gets to run.
ReturnWithoutClose(sol, e, trace, mm) == Outcome(sol, e, trace, mm)

\* a return of Solve after the solver was created: the deferred solver.Close()
\* runs, and later, the Solver being unreachable, the finalizer runs Close
\* once more.  The trace gets one Highs_destroy per pointer handed to it
\* (Highs_destroy returns nothing; its status is a filler).
Return(sol, e, trace, mm) ==
    LET created   == [ptr |-> CHOOSE h \in Handles : TRUE, destroyed |-> << >>]
        deferred  == Close(created)
        finalized == Close(deferred)
    IN  Outcome(sol, e,
                trace \o [i \in 1..Len(finalized.destroyed) |->
                             NativeCall("Highs_destroy", StatusOK, NoArgs)],
                mm)

\* a slice of n numbers written by the solver; the numbers themselves are
\* not modelled, only how many there are
Written(n) == [i \in 1..n |-> 0]

\* &Solution{Status: status}: every slice is nil
StatusOnlySolution(status) ==
    [Status |-> status, ColValues |-> << >>, ColDuals |-> << >>,
     RowValues |-> << >>, RowDuals |-> << >>, ColBasis |-> << >>, RowBasis |-> << >>]

\* the Solution Run builds for a solver holding numCol columns and numRow
\* rows; the basis slices are made only if Highs_getBasis is called and
\* returns StatusOK
Solution(status, numCol, numRow, basisStatus) ==
    LET basis == numCol > 0 /\ numRow > 0 /\ basisStatus = StatusOK
    IN  [Status    |-> status,
         ColValues |-> Written(numCol), ColDuals |-> Written(numCol),
         RowValues |-> Written(numRow), RowDuals |-> Written(numRow),
         ColBasis  |-> IF basis THEN Written(numCol) ELSE << >>,
         RowBasis  |-> IF basis THEN Written(numRow) ELSE << >>]

\* A plausible slip: a warning of Highs_run is treated as a failure.
RunFailedUnlessOK(st) == st # StatusOK

\* if status == StatusError
RunFailed(st) == st = StatusError

\* solver.Run(): Highs_run, then the solution read back from the solver,
\* unless the status is StatusError
Run(mm, trace, numCol, numRow) ==
    UNION {LET t == Append(trace, NativeCall("Run", st, NoArgs))
           IN  IF RunFailed(st)
               THEN {Return(<< >>, FailedWithStatus("Run"), t, mm)}
               ELSE {Return(<<Solution(ms, numCol, numRow, bs)>>, ErrNone, t, mm) :
                        ms \in ModelStatuses, bs \in Statuses} :
              st \in Statuses}

ErrPassHessianLengths ==
    "highs: PassHessian failed: index and value must have same length"

\* solver.PassHessian(dim, start, index, value)
PassHessian(dim, hStart, hIndex, hValue) ==
    IF Len(hIndex) # Len(hValue)
    THEN {[trace |-> << >>, err |-> ErrPassHessianLengths]}
    ELSE {[trace |-> <<NativeCall("PassHessian", st,
                                  [dim |-> dim, start |-> hStart,
                                   index |-> hIndex, value |-> hValue])>>,
           err   |-> newError("PassHessian", st)] : st \in Statuses}

\* solver.PassModel(...): args are the arguments handed to Highs_passModel
PassModel(args) ==
    {[trace |-> <<NativeCall("PassModel", st, args)>>,
      err   |-> newError("PassModel", st)] : st \in Statuses}

\* Solve from "if len(m.Hessian) > 0" on
SolveHessian(mm, numCol, numRow, trace) ==
    IF Len(mm.Hessian) > 0
    THEN UNION {LET h  == c.ret
                    m2 == [mm EXCEPT !.Hessian = c.nz]
                IN  IF h.err # ErrNone THEN {Return(<< >>, h.err, trace, m2)}
                    ELSE UNION {IF p.err # ErrNone
                                THEN {Return(<< >>, p.err, trace \o p.trace, m2)}
                                ELSE Run(m2, trace \o p.trace, numCol, numRow) :
                                   p \in PassHessian(numCol, h.start, h.index, h.value)} :
                   c \in nonzerosToCSRCall(mm.Hessian, TRUE)}
    ELSE Run(mm, trace, numCol, numRow)

\* A plausible slip: the error of PassModel is dropped.
PassModelFailedNever(e) == FALSE

\* if err != nil { return nil, err } after solver.PassModel
PassModelFailed(e) == e # ErrNone

\* Solve from solver.PassModel on
SolveSubmit(mm, numCol, numRow, args, trace) ==
    UNION {IF PassModelFailed(p.err)
           THEN {Return(<< >>, p.err, trace \o p.trace, mm)}
           ELSE SolveHessian(mm, numCol, numRow, trace \o p.trace) :
              p \in PassModel(args)}

\* A plausible slip: a model without variables is submitted like any other.
NoVariablesNever(numCol) == FALSE

\* if numCol == 0
NoVariables(numCol) == numCol = 0

\* A plausible slip: the padded variable types are stored in the Model.
ModelAfterVarTypesStored(mm, varTypes) == [mm EXCEPT !.VarTypes = varTypes]

\* varTypes := m.VarTypes ... varTypes = expanded: only the local variable is
\* rebound, the field keeps its slice
ModelAfterVarTypes(mm, varTypes) == mm

\* Solve from "numCol := m.NumVars()" on
SolvePrepare(mm, trace) ==
    LET numCol   == NumVars(mm)
        numRow   == NumConstraints(mm)
        colCosts == expandSlice(numCol, mm.ColCosts, 0)
        colLower == expandSlice(numCol, mm.ColLower, NegInf)
        colUpper == expandSlice(numCol, mm.ColUpper, Inf)
        rowLower == expandSlice(numRow, mm.RowLower, NegInf)
        rowUpper == expandSlice(numRow, mm.RowUpper, Inf)
        Args(a)  == [numCol |-> numCol, numRow |-> numRow,
                     colCost |-> colCosts.out, colLower |-> colLower.out,
                     colUpper |-> colUpper.out, rowLower |-> rowLower.out,
                     rowUpper |-> rowUpper.out,
                     aStart |-> a.start, aIndex |-> a.index, aValue |-> a.value,
                     integrality |-> PadVarTypes(mm.VarTypes, numCol),
                     maximize |-> mm.Maximize, offset |-> mm.Offset]
        Fail(e)  == {Return(<< >>, e, trace, mm)}
    IN  IF NoVariables(numCol)
        THEN {Return(<<StatusOnlySolution(ModelStatusOptimal)>>, ErrNone, trace, mm)}
        ELSE IF colCosts.err # ErrNone THEN Fail(ErrInconsistentLength("ColCosts"))
        ELSE IF colLower.err # ErrNone THEN Fail(ErrInconsistentLength("ColLower"))
        ELSE IF colUpper.err # ErrNone THEN Fail(ErrInconsistentLength("ColUpper"))
        ELSE IF rowLower.err # ErrNone THEN Fail(ErrInconsistentLength("RowLower"))
        ELSE IF rowUpper.err # ErrNone THEN Fail(ErrInconsistentLength("RowUpper"))
        ELSE UNION {LET a  == c.ret
                        m1 == [mm EXCEPT !.ConstMatrix = c.nz]
                        m2 == ModelAfterVarTypes(m1, PadVarTypes(mm.VarTypes, numCol))
                    IN  IF a.err # ErrNone THEN {Return(<< >>, a.err, trace, m1)}
                        ELSE SolveSubmit(m2, numCol, numRow, Args(a), trace) :
                       c \in nonzerosToCSRCall(mm.ConstMatrix, FALSE)}

\* A plausible slip: the error of cfg.apply is dropped.
ApplyFailedNever(e) == FALSE

\* if err := cfg.apply(solver); err != nil { return nil, err }
ApplyFailed(e) == e # ErrNone

\* m.Solve(opts...): the set of outcomes, one per way the native calls and
\* the unspecified orders can turn out.  Highs_create returning nil ends
\* Solve before anything is deferred.
Solve(mm, opts) ==
    {Outcome(<< >>, ErrNewSolver, << >>, mm)}
    \cup UNION {LET t == <<NativeCall("Highs_create", StatusOK, NoArgs)>> \o a.trace
                IN  IF ApplyFailed(a.err) THEN {Return(<< >>, a.err, t, mm)}
                    ELSE SolvePrepare(mm, t) :
                   a \in apply(ApplyOptions(defaultSolveConfig, opts, 1))}

-----------------------------------------------------------------------------
(* SpecSolve: a Model is filled field by field, then Solve is called once *)

MaxSize == 2        \* most elements in all the slices of the Model together
MaxSolveIdx == 1    \* largest row or column index of a triple of the Model

SolveIdx == (0 - 1)..MaxSolveIdx

SolveNonzero == [Row : SolveIdx, Col : SolveIdx, Val : {1}]

\* the slice fields of Model and the elements the explored programs append
FieldElems ==
    [ColCosts |-> {1}, ColLower |-> {0}, ColUpper |-> {1},
     RowLower |-> {0}, RowUpper |-> {1},
     ConstMatrix |-> SolveNonzero, Hessian |-> SolveNonzero,
     VarTypes |-> {Integer}]

ModelSize(mm) ==
    Len(mm.ColCosts) + Len(mm.ColLower) + Len(mm.ColUpper) + Len(mm.RowLower)
    + Len(mm.RowUpper) + Len(mm.ConstMatrix) + Len(mm.Hessian) + Len(mm.VarTypes)

\* the option lists of the explored Solve calls
SolveOptLists == {<< >>, <<WithOutput(FALSE)>>}

InitSolve ==
    /\ m = ZeroModel
    /\ rowCall = << >>
    /\ solve = [pc |-> "ready", opts |-> << >>, sol |-> << >>, err |-> ErrNone,
                trace |-> << >>]
    /\ IdleCSR
    /\ IdleDims
    /\ IdleExpand
    /\ IdleMaxRowCol
    /\ IdleSolver

\* the program appends one element to one of the exported slice fields:
\* m.F = append(m.F, v)
AppendToField ==
    /\ solve.pc = "ready"
    /\ ModelSize(m) < MaxSize
    /\ \E f \in DOMAIN FieldElems : \E v \in FieldElems[f] :
          m' = [m EXCEPT ![f] = Append(@, v)]
    /\ UNCHANGED <<csrVars, es, mrc, rowCall, solve, solver, dims>>

\* sol, err := m.Solve(opts...)
SolveCall ==
    /\ solve.pc = "ready"
    /\ \E opts \in SolveOptLists : \E o \in Solve(m, opts) :
          /\ solve' = [pc |-> "done", opts |-> opts, sol |-> o.sol, err |-> o.err,
                       trace |-> o.trace]
          /\ m' = o.model
    /\ UNCHANGED <<csrVars, es, mrc, rowCall, solver, dims>>

NextSolve == AppendToField \/ SolveCall

SpecSolve == InitSolve /\ [][NextSolve]_vars

\* Solve has returned
Solved == solve.pc = "done"

\* the native calls of Solve named op, in order
CallsOf(op) == SelectSeq(solve.trace, LAMBDA c : c.op = op)

SolveTypeOK ==
    Solved => /\ Len(solve.sol) <= 1
              /\ Len(CallsOf("Highs_create")) <= 1

\* the calls that set an option
SetterOps == {"SetBoolOption", "SetIntOption", "SetFloatOption", "SetStringOption"}

\* Highs_create returned a handle
SolverCreated == Len(CallsOf("Highs_create")) = 1

\* no option setter returned a status that newError turns into an error
OptionsApplied ==
    \A i \in DOMAIN solve.trace :
        solve.trace[i].op \in SetterOps =>
            solve.trace[i].status \in {StatusOK, StatusWarning}

(* C14: in Solve, a status of PassModel that is neither OK nor Warning (the  *)
(* two statuses the library counts as success) is returned to the caller as *)
(* an error, with no Solution, and Run is never invoked in that call.       *)
C14_PassModelFailurePropagates ==
    Solved =>
        \A i \in DOMAIN solve.trace :
            (/\ solve.trace[i].op = "PassModel"
             /\ solve.trace[i].status \notin {StatusOK, StatusWarning})
            => /\ solve.err = FailedWithStatus("PassModel")
               /\ solve.sol = << >>
               /\ CallsOf("Run") = << >>

\* a Solve call in which PassModel returned StatusError on a model that has
\* a constraint row and a quadratic term
C14_Witness ==
    /\ Solved
    /\ \E i \in DOMAIN solve.trace :
          solve.trace[i].op = "PassModel" /\ solve.trace[i].status = StatusError
    /\ Len(m.Hessian) > 0

(* C15: Solve returns an error and no Solution for every model whose        *)
(* ConstMatrix or Hessian holds a triple with a negative row or column      *)
(* index.                                                                   *)
C15_NegativeIndexRejected ==
    (Solved /\ (HasNegative(m.ConstMatrix) \/ HasNegative(m.Hessian)))
    => (solve.err # ErrNone /\ solve.sol = << >>)

\* the missing bound of variable c (0-based) of a model with numCol variables
\* whose bound slice is empty or shorter than numCol
DefaultedBound(slice, numCol, fillValue) ==
    [i \in 1..numCol |-> IF i <= Len(slice) THEN slice[i] ELSE fillValue]

(* C16: when ColLower (ColUpper) is empty or shorter than the number of     *)
(* variables, Solve does not fail on that account, and the lower (upper)    *)
(* bounds it submits are the given ones followed by -infinity (+infinity).  *)
C16_ShortBoundsDefaulted ==
    Solved =>
        LET numCol == NumVars(m)
        IN  /\ Len(m.ColLower) < numCol =>
                /\ solve.err # ErrInconsistentLength("ColLower")
                /\ \A i \in DOMAIN solve.trace :
                      solve.trace[i].op = "PassModel" =>
                          solve.trace[i].args.colLower =
                              DefaultedBound(m.ColLower, numCol, NegInf)
            /\ Len(m.ColUpper) < numCol =>
                /\ solve.err # ErrInconsistentLength("ColUpper")
                /\ \A i \in DOMAIN solve.trace :
                      solve.trace[i].op = "PassModel" =>
                          solve.trace[i].args.colUpper =
                              DefaultedBound(m.ColUpper, numCol, Inf)

(* C18: Solve on a model with no variables, when the solver was created and *)
(* every option was applied, returns a Solution of Status Optimal and a nil *)
(* error, and neither submits a model or a Hessian nor runs the solver.     *)
C18_NoVariablesOptimal ==
    (Solved /\ NumVars(m) = 0 /\ SolverCreated /\ OptionsApplied)
    => /\ Len(solve.sol) = 1
       /\ solve.sol[1].Status = ModelStatusOptimal
       /\ solve.err = ErrNone
       /\ CallsOf("PassModel") = << >>
       /\ CallsOf("PassHessian") = << >>
       /\ CallsOf("Run") = << >>

\* Solve returned for a model that has a row but no variable, after an
\* option was set with a warning
C18_Witness ==
    /\ Solved
    /\ NumVars(m) = 0
    /\ Len(m.RowLower) > 0
    /\ SolverCreated
    /\ \E i \in DOMAIN solve.trace :
          solve.trace[i].op = "SetBoolOption" /\ solve.trace[i].status = StatusWarning
    /\ solve.err = ErrNone

(* C20: whenever Solve reaches PassModel, the row-start array it submits    *)
(* has exactly numRow = NumConstraints() entries, and entry r is the offset *)
(* of the coefficients of row r, also for rows without coefficients.        *)
C20_RowStartsCoverAllRows ==
    Solved =>
        \A i \in DOMAIN solve.trace :
            solve.trace[i].op = "PassModel" =>
                LET a == solve.trace[i].args
                IN  /\ a.numRow = NumConstraints(m)
                    /\ Len(a.aStart) = a.numRow
                    /\ \A r \in 0..(a.numRow - 1) :
                          a.aStart[r + 1] = OffsetOfRow(m.ConstMatrix, r)

-----------------------------------------------------------------------------
(* SpecClose: NewSolver, then Close any number of times (highs/cgo.go)      *)

MaxCloses == 5    \* most Close calls on the Solver

InitClose ==
    /\ solver = [pc |-> "start", ptr |-> NilPtr, handle |-> NilPtr, err |-> ErrNone,
                 destroyed |-> << >>, closes |-> << >>, collected |-> FALSE]
    /\ IdleCSR
    /\ IdleDims
    /\ IdleExpand
    /\ IdleMaxRowCol
    /\ IdleModel
    /\ IdleSolve

\* s, err := NewSolver(): Highs_create returns nil, or a handle that is
\* stored in s.ptr, and Close is registered as the finalizer of s
NewSolverCall ==
    /\ solver.pc = "start"
    /\ \/ solver' = [solver EXCEPT !.pc = "failed", !.err = ErrNewSolver]
       \/ \E h \in Handles :
             solver' = [solver EXCEPT !.pc = "open", !.ptr = h, !.handle = h]
    /\ UNCHANGED <<csrVars, es, mrc, m, rowCall, solve, dims>>

\* one Close call of the given kind, with what it did
Closing(kind) ==
    LET after == Close(solver)
    IN  solver' = [after EXCEPT
                      !.closes = Append(@, [kind      |-> kind,
                                            ptrBefore |-> solver.ptr,
                                            ptrAfter  |-> after.ptr,
                                            destroys  |-> Len(after.destroyed)
                                                          - Len(solver.destroyed)]),
                      !.collected = (kind = "finalizer")]

\* the Solver exists, is still reachable, and may be closed once more
CanClose ==
    /\ solver.pc = "open"
    /\ ~solver.collected
    /\ Len(solver.closes) < MaxCloses

\* s.Close() called by the program
ExplicitClose ==
    /\ CanClose
    /\ Closing("explicit")
    /\ UNCHANGED <<csrVars, es, mrc, m, rowCall, solve, dims>>

\* defer s.Close() running at the end of a function
DeferredClose ==
    /\ CanClose
    /\ Closing("deferred")
    /\ UNCHANGED <<csrVars, es, mrc, m, rowCall, solve, dims>>

\* the garbage collector runs the finalizer set by runtime.SetFinalizer, once
\* the Solver is unreachable; no call follows it
FinalizerClose ==
    /\ CanClose
    /\ Closing("finalizer")
    /\ UNCHANGED <<csrVars, es, mrc, m, rowCall, solve, dims>>

NextClose == NewSolverCall \/ ExplicitClose \/ DeferredClose \/ FinalizerClose

SpecClose == InitClose /\ [][NextClose]_vars

(* C19: for any sequence of Close calls on one Solver (explicit, deferred,  *)
(* finalizer-triggered, one after another), the native handle is destroyed  *)
(* exactly once, by the first Close; every later Close is a no-op and the   *)
(* handle pointer stays nil.                                                *)
C19_DestroyedExactlyOnce ==
    solver.pc = "open" =>
        IF Len(solver.closes) = 0
        THEN solver.destroyed = << >> /\ solver.ptr = solver.handle
        ELSE /\ solver.destroyed = <<solver.handle>>
             /\ solver.closes[1].destroys = 1
             /\ solver.closes[1].ptrBefore = solver.handle
             /\ \A i \in 1..Len(solver.closes) : solver.closes[i].ptrAfter = NilPtr
             /\ \A i \in 2..Len(solver.closes) :
                   /\ solver.closes[i].destroys = 0
                   /\ solver.closes[i].ptrBefore = NilPtr
             /\ solver.ptr = NilPtr

\* the Solver was closed by the program, then by a deferred call, then by the
\* finalizer
C19_Witness ==
    /\ solver.pc = "open"
    /\ Len(solver.closes) = 3
    /\ solver.closes[1].kind = "explicit"
    /\ solver.closes[2].kind = "deferred"
    /\ solver.closes[3].kind = "finalizer"

-----------------------------------------------------------------------------
(* Further properties of nonzerosToCSR, checked under Spec *)

\* 1-based rank of row r among the distinct rows of s
RankOfRow(s, r) == 1 + Cardinality({q \in RowsOf(s) : q < r})

\* the values of the triples of s that carry key k
ValsOf(s, k) == {s[i].Val : i \in {j \in DOMAIN s : Key(s[j]) = k}}

(* C21: for non-empty valid input, start has exactly one entry per distinct *)
(* row index of the input, in ascending row order, the k-th entry being the *)
(* number of surviving entries in rows smaller than the k-th smallest row;  *)
(* index and value list the surviving entries in (row, col) order.          *)
C21_OneStartPerDistinctRow ==
    (Succeeded /\ Len(nz) > 0) =>
        /\ Len(start) = Cardinality(RowsOf(nz))
        /\ \A r \in RowsOf(nz) : start[RankOfRow(nz, r)] = OffsetOfRow(nz, r)
        /\ Len(index) = Cardinality(Keys(nz))
        /\ Len(value) = Cardinality(Keys(nz))
        /\ \A k \in Keys(nz) :
              /\ index[PosOf(nz, k)] = k[2]
              /\ value[PosOf(nz, k)] \in ValsOf(nz, k)

\* a successful call on a slice whose rows skip row 1 and whose second row
\* holds the smaller column
C21_Witness ==
    /\ Succeeded
    /\ RowsOf(nz) = {0, 2}
    /\ \E i \in DOMAIN nz : nz[i].Row = 2 /\ nz[i].Col = 0
    /\ \E i \in DOMAIN nz : nz[i].Row = 0 /\ nz[i].Col = 1

(* C25: in every successful result the value emitted for a (row, col) key   *)
(* is the value of one of the input triples with that key; values of        *)
(* duplicates are never added together or combined.                         *)
C25_ValueIsOneOfTheInputs ==
    Succeeded =>
        /\ Len(value) = Cardinality(Keys(nz))
        /\ \A p \in 1..Len(value) :
              \E i \in DOMAIN nz :
                  PosOf(nz, Key(nz[i])) = p /\ value[p] = nz[i].Val

\* a successful call on two triples with the same key and different values
C25_Witness ==
    /\ Succeeded
    /\ Len(nz) = 2
    /\ Key(nz[1]) = Key(nz[2])
    /\ nz[1].Val # nz[2].Val

-----------------------------------------------------------------------------
(* Further properties of the Add...Row methods, checked under SpecRows *)

(* C22: for a Model that starts as the zero value and is changed only by    *)
(* the five Add...Row methods, after k calls RowLower and RowUpper have     *)
(* length k, NumConstraints() is k, and every ConstMatrix entry has a Row   *)
(* in 0..k-1 that is the index of the call that added it.                   *)
C22_RowsCountCalls ==
    LET none    == rowCall = << >>
        first   == IF none THEN m ELSE rowCall[1].first
        k       == IF none THEN 0 ELSE rowCall[1].k
        addedBy == IF none THEN << >> ELSE rowCall[1].addedBy
    IN  first = ZeroModel =>
            /\ Len(m.RowLower) = k
            /\ Len(m.RowUpper) = k
            /\ NumConstraints(m) = k
            /\ Len(addedBy) = Len(m.ConstMatrix)
            /\ \A i \in 1..Len(m.ConstMatrix) :
                  /\ 0 <= m.ConstMatrix[i].Row
                  /\ m.ConstMatrix[i].Row < k
                  /\ m.ConstMatrix[i].Row = addedBy[i]

\* two calls on the zero Model: the first added a row without entries, the
\* second, an AddSparseRow, added an entry
C22_Witness ==
    /\ rowCall # << >>
    /\ rowCall[1].first = ZeroModel
    /\ rowCall[1].k = 2
    /\ rowCall[1].op = "AddSparseRow"
    /\ rowCall[1].before.ConstMatrix = << >>
    /\ Len(m.ConstMatrix) = 1

-----------------------------------------------------------------------------
(* Further properties of Model.Solve, checked under SpecSolve *)

\* the stage of Solve a native operation belongs to
StageOf(op) ==
    CASE op = "Highs_create" -> 0
      [] op \in SetterOps -> 1
      [] op = "PassModel" -> 2
      [] op = "PassHessian" -> 3
      [] op = "Run" -> 4
      [] op = "Highs_destroy" -> 5

\* the native call returned a status that the library counts as a failure
CallFailed(c) == c.status \notin {StatusOK, StatusWarning}

\* positions of the trace that hold a call named op
PositionsOf(op) == {i \in DOMAIN solve.trace : solve.trace[i].op = op}

(* C23: within one Solve call the native operations occur in the order      *)
(* option settings, PassModel, PassHessian (only for a non-empty Hessian),  *)
(* Run; a step is executed only if every earlier step and every local      *)
(* validation before it succeeded, so after the first failure nothing but   *)
(* the handle release follows and Run is never invoked.                     *)
C23_NativeCallOrder ==
    Solved =>
        LET t == solve.trace
        IN  /\ \A i, j \in DOMAIN t : i < j => StageOf(t[i].op) <= StageOf(t[j].op)
            /\ \A op \in {"PassModel", "PassHessian", "Run"} :
                  Cardinality(PositionsOf(op)) <= 1
            /\ \A i, j \in DOMAIN t :
                  (i < j /\ CallFailed(t[i])) => t[j].op = "Highs_destroy"
            /\ PositionsOf("PassHessian") # {} =>
                  /\ Len(m.Hessian) > 0
                  /\ PositionsOf("PassModel") # {}
                  /\ IsValid(m.Hessian, TRUE)
            /\ PositionsOf("PassModel") # {} =>
                  /\ ~HasNegative(m.ConstMatrix)
                  /\ \A f \in {"ColCosts", "ColLower", "ColUpper"} :
                        Len(m[f]) \in {0, NumVars(m)}
                  /\ \A f \in {"RowLower", "RowUpper"} :
                        Len(m[f]) \in {0, NumConstraints(m)}
            /\ PositionsOf("Run") # {} =>
                  /\ PositionsOf("PassModel") # {}
                  /\ Len(m.Hessian) > 0 => PositionsOf("PassHessian") # {}
            /\ (solve.err # ErrNone /\ PositionsOf("Run") # {}) =>
                  /\ solve.err = FailedWithStatus("Run")
                  /\ \A i \in PositionsOf("Run") : CallFailed(t[i])

\* a Solve call that set an option, submitted the model and its Hessian, and
\* ran the solver
C23_Witness ==
    /\ Solved
    /\ \A op \in {"SetBoolOption", "PassModel", "PassHessian", "Run"} :
          PositionsOf(op) # {}
    /\ solve.err = ErrNone

(* C24: on every exit path of Solve after the solver was created, the       *)
(* native handle is destroyed exactly once, and no native operation is      *)
(* performed on the handle after it was destroyed.                          *)
C24_HandleReleasedOnce ==
    Solved =>
        IF SolverCreated
        THEN /\ PositionsOf("Highs_destroy") = {Len(solve.trace)}
             /\ solve.trace[1].op = "Highs_create"
        ELSE solve.trace = << >>

\* Solve returned the error of the Hessian's validation, after PassModel
C24_Witness ==
    /\ Solved
    /\ SolverCreated
    /\ solve.err = ErrTriangular
    /\ PositionsOf("PassModel") # {}

(* C27: whenever Solve reaches PassModel, the integrality array it submits  *)
(* is empty (VarTypes empty) or has exactly numCol entries, entry i being   *)
(* VarTypes[i] for i below min(len(VarTypes), numCol) and Continuous for    *)
(* every other i.                                                           *)
C27_IntegralityPadded ==
    Solved =>
        \A p \in PositionsOf("PassModel") :
            LET a  == solve.trace[p].args
                vt == a.integrality
            IN  IF Len(m.VarTypes) = 0 THEN vt = << >>
                ELSE /\ Len(vt) = a.numCol
                     /\ \A i \in 1..a.numCol :
                           vt[i] = IF i <= Len(m.VarTypes) THEN m.VarTypes[i]
                                   ELSE Continuous

\* PassModel was reached for a model of two variables, the first of them
\* declared Integer and the second without a type
C27_Witness ==
    /\ Solved
    /\ m.VarTypes = <<Integer>>
    /\ \E p \in PositionsOf("PassModel") :
          solve.trace[p].args.integrality = <<Integer, Continuous>>

C29_RunResult ==
    Solved =>
        \A r \in PositionsOf("Run") : \A p \in PositionsOf("PassModel") :
            LET st == solve.trace[r].status
                a  == solve.trace[p].args
            IN  /\ st = StatusError <=> (solve.sol = << >> /\ solve.err # ErrNone)
                /\ st # StatusError =>
                      /\ solve.err = ErrNone
                      /\ Len(solve.sol) = 1
                      /\ Len(solve.sol[1].ColValues) = a.numCol
                      /\ Len(solve.sol[1].ColDuals) = a.numCol
                      /\ Len(solve.sol[1].RowValues) = a.numRow
                      /\ Len(solve.sol[1].RowDuals) = a.numRow
                      /\ \/ /\ solve.sol[1].ColBasis = << >>
                            /\ solve.sol[1].RowBasis = << >>
                         \/ /\ Len(solve.sol[1].ColBasis) = a.numCol
                            /\ Len(solve.sol[1].RowBasis) = a.numRow

\* Run returned with a warning and a Solution that carries a basis
C29_Witness ==
    /\ Solved
    /\ \E r \in PositionsOf("Run") : solve.trace[r].status = StatusWarning
    /\ Len(solve.sol) = 1
    /\ Len(solve.sol[1].ColBasis) > 0
    /\ Len(solve.sol[1].RowBasis) > 0

-----------------------------------------------------------------------------
(* SpecOptions: one call of Solve with a list of options, on a fixed Model  *)

MaxOpts == 2    \* most options handed to Solve

\* the options of the explored calls: the output flag set through its own
\* option and through the generic one, and one other boolean option
Options ==
    {WithOutput(b) : b \in BOOLEAN}
    \cup {WithBoolOption("output_flag", b) : b \in BOOLEAN}
    \cup {WithBoolOption("log_to_console", b) : b \in BOOLEAN}

OptionLists == UNION {[1..k -> Options] : k \in 0..MaxOpts}

\* a model of one variable, and the same with a quadratic term
OptionModels ==
    {[ZeroModel EXCEPT !.ColCosts = <<1>>],
     [ZeroModel EXCEPT !.ColCosts = <<1>>,
                       !.Hessian = <<[Row |-> 0, Col |-> 0, Val |-> 1]>>]}

InitOptions ==
    /\ m \in OptionModels
    /\ rowCall = << >>
    /\ solve = [pc |-> "ready", opts |-> << >>, sol |-> << >>, err |-> ErrNone,
                trace |-> << >>]
    /\ IdleCSR
    /\ IdleDims
    /\ IdleExpand
    /\ IdleMaxRowCol
    /\ IdleSolver

\* sol, err := m.Solve(opts...)
SolveWithOptions ==
    /\ solve.pc = "ready"
    /\ \E opts \in OptionLists : \E o \in Solve(m, opts) :
          /\ solve' = [pc |-> "done", opts |-> opts, sol |-> o.sol, err |-> o.err,
                       trace |-> o.trace]
          /\ m' = o.model
    /\ UNCHANGED <<csrVars, es, mrc, rowCall, solver, dims>>

NextOptions == SolveWithOptions

SpecOptions == InitOptions /\ [][NextOptions]_vars

\* the solver option key an option sets
OptionKey(o) ==
    IF \E i \in 1..Len(NamedOptions) : NamedOptions[i].field = o.field
    THEN NamedOptions[CHOOSE i \in 1..Len(NamedOptions) :
                         NamedOptions[i].field = o.field].name
    ELSE o.name

\* positions of the trace, before position p, that set the option key
SettingsOf(key, p) ==
    {i \in 1..(p - 1) : solve.trace[i].op \in SetterOps
                        /\ solve.trace[i].args.name = key}

\* the value the solver holds for key at position p of the trace: the one of
\* the last setting before p
HeldValue(key, p) ==
    LET last == CHOOSE i \in SettingsOf(key, p) : \A j \in SettingsOf(key, p) : j <= i
    IN  solve.trace[last].args.val

(* C28: when two options handed to Solve set the same solver option key,    *)
(* the value of the one later in the argument list is the value the solver  *)
(* holds when PassModel is called.                                          *)
C28_LaterOptionWins ==
    Solved =>
        \A p \in PositionsOf("PassModel") :
            \A i, j \in 1..Len(solve.opts) :
                (/\ i < j
                 /\ OptionKey(solve.opts[i]) = OptionKey(solve.opts[j])
                 /\ \A l \in (j + 1)..Len(solve.opts) :
                       OptionKey(solve.opts[l]) # OptionKey(solve.opts[j]))
                => /\ SettingsOf(OptionKey(solve.opts[j]), p) # {}
                   /\ HeldValue(OptionKey(solve.opts[j]), p) = solve.opts[j].val

-----------------------------------------------------------------------------
(* SpecNumVars: one call of NumVars on a Model *)

MaxArr == 2    \* longest per-column slice of the Model

\* a slice of the given length (NumVars reads lengths only)
SliceOf(len, v) == [i \in 1..len |-> v]

\* a matrix with no triple, or with one triple in row 0
OneTripleMatrices ==
    {<< >>} \cup {<<[Row |-> 0, Col |-> c, Val |-> 1]>> : c \in SolveIdx}

NumVarsModels ==
    {[ZeroModel EXCEPT !.ColCosts = SliceOf(a, 1), !.ColLower = SliceOf(b, 0),
                       !.ColUpper = SliceOf(c, 1), !.VarTypes = SliceOf(d, Integer),
                       !.ConstMatrix = cm, !.Hessian = h] :
        a \in 0..MaxArr, b \in 0..MaxArr, c \in 0..MaxArr, d \in 0..MaxArr,
        cm \in OneTripleMatrices, h \in OneTripleMatrices}

InitNumVars ==
    /\ m \in NumVarsModels
    /\ rowCall = << >>
    /\ dims = [pc |-> "ready", n |-> 0]
    /\ IdleCSR
    /\ IdleExpand
    /\ IdleMaxRowCol
    /\ IdleSolve
    /\ IdleSolver

\* n := m.NumVars()
NumVarsCall ==
    /\ dims.pc = "ready"
    /\ dims' = [pc |-> "done", n |-> NumVars(m)]
    /\ UNCHANGED <<csrVars, es, mrc, m, rowCall, solve, solver>>

NextNumVars == NumVarsCall

SpecNumVars == InitNumVars /\ [][NextNumVars]_vars

\* the lengths of the four per-column slices
ColumnLengths(mm) ==
    {Len(mm.ColCosts), Len(mm.ColLower), Len(mm.ColUpper), Len(mm.VarTypes)}

\* the column indices used in the two matrices
ColumnsUsed(mm) == ColsOf(mm.ConstMatrix) \cup ColsOf(mm.Hessian)

(* C26: NumVars returns a count n such that every column index used in      *)
(* ConstMatrix and Hessian is below n and none of ColCosts, ColLower,       *)
(* ColUpper, VarTypes is longer than n (n is the maximum of maxCol+1 and    *)
(* the four lengths), and n >= 0.                                           *)
C26_NumVarsIsMaximum ==
    dims.pc = "done" =>
        /\ dims.n >= 0
        /\ \A c \in ColumnsUsed(m) : c < dims.n
        /\ \A l \in ColumnLengths(m) : l <= dims.n
        /\ dims.n = MaxOf(ColumnLengths(m) \cup {c + 1 : c \in ColumnsUsed(m)} \cup {0})
====
